---- MODULE Spec2Model ----
(***************************************************************************)
(* NetworkTime (src/src/time.rs): a fixed-step time accumulator with       *)
(* frame-lag bookkeeping and a message cadence.                            *)
(*                                                                         *)
(* The u32 counters and the u64 seconds of a Duration keep their width.    *)
(* TLC's integers end at 2^31 - 1, so a number is held as its digits in    *)
(* base 2^16, lowest first: two digits for a u32, four for a u64.  Every   *)
(* digit but the highest is in 0 .. 2^16 - 1; the highest carries what an  *)
(* exact sum or difference has above the width or below zero.  Sums and    *)
(* differences are taken exactly, tested against the width, and wrapped    *)
(* or turned into a panic as the build does.                               *)
(*                                                                         *)
(* A std::time::Duration is the record [secs, nanos] with nanos < 10^9,    *)
(* as in the standard library, and its arithmetic is done on that pair.    *)
(* A panic stops the program: the variable panicked records its message    *)
(* and no operation follows it.                                            *)
(*                                                                         *)
(* Spec is the caller that makes any call in any order, from construction; *)
(* LongRun is the same caller late in a long session, 2^32 - 2 frames in.  *)
(* HostLoop is the caller's loop that the documentation of the operations  *)
(* describes, from construction, and HostLongRun that loop late in a long  *)
(* session.                                                                *)
(***************************************************************************)
EXTENDS Integers, FiniteSets, Sequences, TLC

VARIABLES
    frame_number,        \* u32, line 10
    elapsed_duration,    \* Duration, line 12
    per_frame_duration,  \* Duration, line 14
    message_send_rate,   \* u8, line 16
    frame_lag,           \* u32, line 19
    panicked,            \* "none", or the message of the panic that ended the run
    wrapped,             \* a u32 addition or subtraction has overflowed and wrapped:
                         \* the build is one with overflow checks off
    last_call,           \* history: the operation called last, with its argument
    ret,                 \* history: what that operation returned
    added_total,         \* history: sum of the durations update_elapsed has added
    spent_total,         \* history: sum of the durations subtracted by increment_frame_number
    added_since,         \* history: sum passed to update_elapsed since the last increment_frame_number
    lag_base,            \* history: frame_lag at construction or at the last reset_frame_lag
    incs_since,          \* history: completed increment_frame_number calls since then
    incs_total,          \* history: completed increment_frame_number calls since construction
    synced,              \* history: set_frame_number has been called
    pc,                  \* where the caller is: "api" or "long" (any call, in any order) or a step of its loop
    entry_elapsed,       \* caller's loop: elapsed_duration when the drain loop was entered
    loop_calls,          \* caller's loop: increment_frame_number calls made by the drain loop
    reports              \* caller's loop: the ranges network_frames_to_run has returned to it

fields == <<frame_number, elapsed_duration, per_frame_duration, message_send_rate, frame_lag>>
history == <<added_total, spent_total, added_since, lag_base, incs_since, incs_total, synced>>
loop == <<pc, entry_elapsed, loop_calls, reports>>
vars == <<frame_number, elapsed_duration, per_frame_duration, message_send_rate, frame_lag,
          panicked, wrapped, last_call, ret, added_total, spent_total, added_since, lag_base,
          incs_since, incs_total, synced, pc, entry_elapsed, loop_calls, reports>>

-----------------------------------------------------------------------------
(* Bounds of the model *)

\* set_frame_number takes the frames 0..MaxFrame, and u32::MAX
MaxFrame == 1
\* should_send_message takes the frames 0..MaxQueryFrame, and u32::MAX
MaxQueryFrame == 1
\* increment_frame_number is explored until it has been called MaxIncrements times
MaxIncrements == 2
\* update_elapsed is explored while the total passed to it stays within MaxAddedTenths/10 s
MaxAddedTenths == 12
\* the same two bounds for the caller's loop, which makes far fewer choices
MaxLoopIncrements == 6
MaxLoopAddedTenths == 24

-----------------------------------------------------------------------------
(* Program constants *)

DEFAULT_TICKS_PER_MIN == 100

\* std::time::Duration's NANOS_PER_SEC
NANOS_PER_SEC == 1000 * 1000 * 1000

-----------------------------------------------------------------------------
(* Unsigned numbers (u32: lines 10, 19; u64: the secs of a Duration) *)

\* the base of the digits
LIMB == 65536

\* the u32 n, for 0 <= n < 2^31
Low(n) == <<n % LIMB, n \div LIMB>>

\* the u64 n, for 0 <= n < 2^31
Low64(n) == <<n % LIMB, n \div LIMB, 0, 0>>

\* the integer a u32 or u64 below 2^31 is
ToInt(x) == x[1] + LIMB * x[2]

\* a u32 is below 2^31
IsLow(x) == x[2] < LIMB \div 2

U32_MAX == <<LIMB - 1, LIMB - 1>>

U64_MAX == <<LIMB - 1, LIMB - 1, LIMB - 1, LIMB - 1>>

\* the digits of a number given by two (u32) or four (u64) digits that are out
\* of 0 .. 2^16 - 1: what a digit has above or below is carried into the next
Carried(x) ==
    IF Len(x) = 2
    THEN <<x[1] % LIMB, x[2] + (x[1] \div LIMB)>>
    ELSE LET d2 == x[2] + (x[1] \div LIMB)
             d3 == x[3] + (d2 \div LIMB)
         IN  <<x[1] % LIMB, d2 % LIMB, d3 % LIMB, x[4] + (d3 \div LIMB)>>

\* the exact sum and difference of two numbers of the same width
Plus(a, b) ==
    IF Len(a) = 2
    THEN Carried(<<a[1] + b[1], a[2] + b[2]>>)
    ELSE Carried(<<a[1] + b[1], a[2] + b[2], a[3] + b[3], a[4] + b[4]>>)

Minus(a, b) ==
    IF Len(a) = 2
    THEN Carried(<<a[1] - b[1], a[2] - b[2]>>)
    ELSE Carried(<<a[1] - b[1], a[2] - b[2], a[3] - b[3], a[4] - b[4]>>)

\* the order of two numbers of the same width: by the highest digit in which
\* they differ
Less(a, b) ==
    IF Len(a) = 2
    THEN \/ a[2] < b[2]
         \/ a[2] = b[2] /\ a[1] < b[1]
    ELSE \/ a[4] < b[4]
         \/ a[4] = b[4] /\ a[3] < b[3]
         \/ a[4] = b[4] /\ a[3] = b[3] /\ a[2] < b[2]
         \/ a[4] = b[4] /\ a[3] = b[3] /\ a[2] = b[2] /\ a[1] < b[1]

LessEq(a, b) == ~Less(b, a)

\* x does not fit its width: it is 2^w or more
Overflows(x) == x[Len(x)] >= LIMB

\* x does not fit an unsigned type: it is below 0
Underflows(x) == x[Len(x)] < 0

\* x modulo 2^w: what wrapping arithmetic stores
Wrap(x) == [x EXCEPT ![Len(x)] = @ % LIMB]

\* the u32 x modulo the u32 d, for 0 < d < 2^8 (line 39: d comes from a u8)
Rem(x, d) == ((x[2] % d[1]) * (LIMB % d[1]) + x[1]) % d[1]

-----------------------------------------------------------------------------
(* std::time::Duration, as NetworkTime uses it *)

Duration(s, n) == [secs |-> s, nanos |-> n]

from_secs(s) == Duration(Low64(s), 0)

from_millis(ms) == Duration(Low64(ms \div 1000), (ms % 1000) * 1000000)

\* Duration::MAX
DURATION_MAX == Duration(U64_MAX, NANOS_PER_SEC - 1)

\* the derived ordering of Duration: by secs, then by nanos
DurationLess(a, b) ==
    \/ Less(a.secs, b.secs)
    \/ a.secs = b.secs /\ a.nanos < b.nanos

DurationLessEq(a, b) == ~DurationLess(b, a)

\* the exact sum of two durations, the nanos carried into the secs
DurationSum(a, b) ==
    IF a.nanos + b.nanos >= NANOS_PER_SEC
    THEN Duration(Plus(Plus(a.secs, b.secs), Low64(1)), a.nanos + b.nanos - NANOS_PER_SEC)
    ELSE Duration(Plus(a.secs, b.secs), a.nanos + b.nanos)

\* Duration + Duration (line 56) has no value: the seconds pass u64::MAX, and
\* the addition panics
DurationAddOverflows(a, b) == Overflows(DurationSum(a, b).secs)

\* Duration + Duration (line 56) where it has a value
DurationAdd(a, b) == DurationSum(a, b)

\* a subtraction that borrows the wrong way round
DurationSubBorrowsBackwards(a, b) ==
    IF a.nanos >= b.nanos
    THEN Duration(Minus(a.secs, b.secs), a.nanos - b.nanos)
    ELSE Duration(Minus(Minus(a.secs, b.secs), Low64(1)), b.nanos - a.nanos)

\* Duration - Duration (line 45) where it has a value, that is where b <= a:
\* the nanos borrow from the secs.  Where a < b the subtraction panics
DurationSub(a, b) ==
    IF a.nanos >= b.nanos
    THEN Duration(Minus(a.secs, b.secs), a.nanos - b.nanos)
    ELSE Duration(Minus(Minus(a.secs, b.secs), Low64(1)), a.nanos + NANOS_PER_SEC - b.nanos)

\* floor(a * b / c) for a < c, computed without leaving the 32-bit integers
MulDiv(a, b, c) == a * (b \div c) + (a * (b % c)) \div c

\* a division that forgets the seconds left over by the whole-second division
DurationDivWholeSecs(a, rhs) == Duration(Low64(ToInt(a.secs) \div rhs), a.nanos \div rhs)

\* Duration / u32 (lines 100, 115) for rhs > 0 and a of fewer than 2^31
\* seconds (the program divides 1 s and 60 s): the whole seconds are divided,
\* the remaining seconds are turned into nanoseconds and divided, and the
\* nanos are divided; everything rounds down to a nanosecond
DurationDiv(a, rhs) ==
    LET secs == ToInt(a.secs) \div rhs
        secs_rem == ToInt(a.secs) % rhs
        nanos == a.nanos \div rhs
        nanos_rem == a.nanos % rhs
        extra_nanos == MulDiv(secs_rem, NANOS_PER_SEC, rhs)
                       + (((secs_rem * (NANOS_PER_SEC % rhs)) % rhs) + nanos_rem) \div rhs
    IN  Duration(Low64(secs), nanos + extra_nanos)

-----------------------------------------------------------------------------
(* std::ops::RangeInclusive<u32>, as line 26 builds it *)

RangeInclusive(start, end) == [start |-> start, end |-> end]

\* RangeInclusive::is_empty: start > end
is_empty(r) == Less(r.end, r.start)

\* RangeInclusive::contains
contains(r, f) == LessEq(r.start, f) /\ LessEq(f, r.end)

\* how many frame numbers the range holds
count(r) == IF is_empty(r) THEN Low(0) ELSE Plus(Minus(r.end, r.start), Low(1))

-----------------------------------------------------------------------------
(* Inputs *)

\* durations passed to update_elapsed: the 500 ms of the test at line 160,
\* one default frame, and the longest Duration
DurationInputs == {from_millis(500), from_millis(600), DURATION_MAX}

\* rates passed to set_network_frame_rate: 0 (division by zero), 3 (does not
\* divide a second), the 20 of the test at line 133, and a rate above the
\* number of nanoseconds in a second
RateInputs == {0, 3, 20, 2 * NANOS_PER_SEC}

\* rates passed to set_message_send_rate (u8)
SendRateInputs == {0, 3}

\* frame numbers passed to set_frame_number
FrameInputs == {Low(n) : n \in 0 .. MaxFrame} \cup {U32_MAX}

\* frame numbers passed to should_send_message
QueryFrameInputs == {Low(n) : n \in 0 .. MaxQueryFrame} \cup {U32_MAX}

Call(op, arg) == [op |-> op, arg |-> arg]

NoArg == "()"

Unit == "()"

-----------------------------------------------------------------------------
(* A long session: the states that LongRun and HostLongRun start from *)

\* LongRun starts after default(); set_network_frame_rate(10^9);
\* update_elapsed(4.294967294 s); 2^32 - 2 calls of increment_frame_number
LongRunIncrements == Minus(U32_MAX, Low(1))

\* the 2^32 - 2 nanoseconds added and spent by then
LongRunAdded == Duration(Low64(4), 294967294)

\* HostLongRun starts after default(); set_network_frame_rate(3) and a first
\* iteration: update_elapsed(1431655762.901677569 s), 2^32 - 3 calls of
\* increment_frame_number, network_frames_to_run, reset_frame_lag
HostLongIncrements == Minus(U32_MAX, Low(2))

\* the (2^32 - 3) * 333333333 ns added and spent by then
HostLongAdded == Duration(Low64(1431655762), 901677569)

\* the bounds in force
IncrementsBound ==
    IF pc = "api" THEN Low(MaxIncrements)
    ELSE IF pc = "long" THEN Plus(LongRunIncrements, Low(MaxIncrements))
    ELSE IF Less(incs_total, HostLongIncrements) THEN Low(MaxLoopIncrements)
    ELSE Plus(HostLongIncrements, Low(MaxLoopIncrements))

AddedBound ==
    IF pc = "api" THEN from_millis(100 * MaxAddedTenths)
    ELSE IF pc = "long" THEN DurationSum(LongRunAdded, from_millis(100 * MaxAddedTenths))
    ELSE IF Less(incs_total, HostLongIncrements) THEN from_millis(100 * MaxLoopAddedTenths)
    ELSE DurationSum(HostLongAdded, from_millis(100 * MaxLoopAddedTenths))

\* update_elapsed is explored while the total added stays within AddedBound;
\* Duration::MAX is passed to it while the total added before is within it
ExploresUpdate(duration) ==
    /\ DurationLessEq(added_total, AddedBound)
    /\ duration /= DURATION_MAX =>
          DurationLessEq(DurationSum(added_total, duration), AddedBound)

-----------------------------------------------------------------------------
(* The queries, as functions of the fields they read *)

\* frame_number + 1 of line 26, before it is stored in a u32
frames_sum(fn) == Plus(fn, Low(1))

\* the addition of line 26 passes u32::MAX
frames_overflow(fn) == Overflows(frames_sum(fn))

\* frame_number + 1 - frame_lag of line 26, before it is stored in a u32
frames_start(fn, lag) == Minus(Wrap(frames_sum(fn)), lag)

\* the subtraction of line 26 goes below zero
frames_underflow(fn, lag) == Underflows(frames_start(fn, lag))

\* lines 25-27: the RangeInclusive returned, when the call returns.  With
\* overflow checks off an addition or subtraction that overflows wraps
network_frames_to_run(fn, lag) == RangeInclusive(Wrap(frames_start(fn, lag)), fn)

\* u32::from(u8), line 39
u32_from(n) == Low(n)

\* a cadence counted from frame 1
should_send_message_from_one(rate, frame) == Rem(Plus(frame, Low(1)), u32_from(rate)) = 0

\* lines 38-40, for message_send_rate /= 0
should_send_message(rate, frame) == Rem(frame, u32_from(rate)) = 0

\* lines 32-34
should_send_message_now(rate, fn) == should_send_message(rate, fn)

-----------------------------------------------------------------------------
(* Construction: impl Default, lines 109-122 *)

\* a default of 100 frames per second
DefaultPerSecond ==
    [frame_number |-> Low(0),
     elapsed_duration |-> from_secs(0),
     per_frame_duration |-> DurationDiv(from_secs(1), DEFAULT_TICKS_PER_MIN),
     message_send_rate |-> 1,
     frame_lag |-> Low(1)]

\* a default that owes no frame
DefaultLagZero ==
    [frame_number |-> Low(0),
     elapsed_duration |-> from_secs(0),
     per_frame_duration |-> DurationDiv(from_secs(60), DEFAULT_TICKS_PER_MIN),
     message_send_rate |-> 1,
     frame_lag |-> Low(0)]

Default ==
    [frame_number |-> Low(0),
     elapsed_duration |-> from_secs(0),
     per_frame_duration |-> DurationDiv(from_secs(60), DEFAULT_TICKS_PER_MIN),
     message_send_rate |-> 1,
     frame_lag |-> Low(1)]

\* the NetworkTime just constructed, and nothing called yet
Constructed ==
    /\ frame_number = Default.frame_number
    /\ elapsed_duration = Default.elapsed_duration
    /\ per_frame_duration = Default.per_frame_duration
    /\ message_send_rate = Default.message_send_rate
    /\ frame_lag = Default.frame_lag
    /\ panicked = "none"
    /\ wrapped = FALSE
    /\ last_call = Call("default", NoArg)
    /\ ret = Unit
    /\ added_total = from_secs(0)
    /\ spent_total = from_secs(0)
    /\ added_since = from_secs(0)
    /\ lag_base = Default.frame_lag
    /\ incs_since = Low(0)
    /\ incs_total = Low(0)
    /\ synced = FALSE

\* the caller makes any call in any order
Init ==
    /\ Constructed
    /\ pc = "api"
    /\ entry_elapsed = from_secs(0)
    /\ loop_calls = Low(0)
    /\ reports = <<>>

\* the same caller after default(); set_network_frame_rate(10^9);
\* update_elapsed(4.294967294 s); 2^32 - 2 calls of increment_frame_number:
\* frame_number is u32::MAX - 1 and frame_lag is u32::MAX, and nothing has
\* overflowed
LongRunInit ==
    /\ frame_number = LongRunIncrements
    /\ elapsed_duration = from_secs(0)
    /\ per_frame_duration = DurationDiv(from_secs(1), NANOS_PER_SEC)
    /\ message_send_rate = Default.message_send_rate
    /\ frame_lag = Plus(Default.frame_lag, LongRunIncrements)
    /\ panicked = "none"
    /\ wrapped = FALSE
    /\ last_call = Call("increment_frame_number", NoArg)
    /\ ret = Unit
    /\ added_total = LongRunAdded
    /\ spent_total = LongRunAdded
    /\ added_since = from_secs(0)
    /\ lag_base = Default.frame_lag
    /\ incs_since = LongRunIncrements
    /\ incs_total = LongRunIncrements
    /\ synced = FALSE
    /\ pc = "long"
    /\ entry_elapsed = from_secs(0)
    /\ loop_calls = Low(0)
    /\ reports = <<>>

-----------------------------------------------------------------------------
(* The operations *)

\* an update that stores the duration instead of adding it
UpdateElapsedOverwrites(duration) ==
    /\ panicked = "none"
    /\ ExploresUpdate(duration)
    /\ elapsed_duration' = duration
    /\ added_total' = DurationSum(added_total, duration)
    /\ added_since' = DurationSum(added_since, duration)
    /\ last_call' = Call("update_elapsed", duration)
    /\ ret' = Unit
    /\ UNCHANGED <<frame_number, per_frame_duration, message_send_rate, frame_lag, panicked,
                   wrapped, spent_total, lag_base, incs_since, incs_total, synced>>

\* lines 55-57; the addition panics when the sum passes Duration::MAX
UpdateElapsed(duration) ==
    /\ panicked = "none"
    /\ ExploresUpdate(duration)
    /\ IF DurationAddOverflows(elapsed_duration, duration)
       THEN /\ panicked' = "overflow when adding durations"
            /\ UNCHANGED <<elapsed_duration, added_total, added_since>>
       ELSE /\ elapsed_duration' = DurationAdd(elapsed_duration, duration)
            /\ added_total' = DurationSum(added_total, duration)
            /\ added_since' = DurationSum(added_since, duration)
            /\ UNCHANGED panicked
    /\ last_call' = Call("update_elapsed", duration)
    /\ ret' = Unit
    /\ UNCHANGED <<frame_number, per_frame_duration, message_send_rate, frame_lag,
                   wrapped, spent_total, lag_base, incs_since, incs_total, synced>>

\* an increment that empties the accumulator
IncrementDropsRemainder ==
    /\ panicked = "none"
    /\ Less(incs_total, IncrementsBound)
    /\ ~DurationLess(elapsed_duration, per_frame_duration)
    /\ frame_number' = Wrap(Plus(frame_number, Low(1)))
    /\ elapsed_duration' = from_secs(0)
    /\ frame_lag' = Wrap(Plus(frame_lag, Low(1)))
    /\ wrapped' = (wrapped \/ Overflows(Plus(frame_number, Low(1)))
                           \/ Overflows(Plus(frame_lag, Low(1))))
    /\ spent_total' = DurationSum(spent_total, per_frame_duration)
    /\ added_since' = from_secs(0)
    /\ incs_since' = Plus(incs_since, Low(1))
    /\ incs_total' = Plus(incs_total, Low(1))
    /\ last_call' = Call("increment_frame_number", NoArg)
    /\ ret' = Unit
    /\ UNCHANGED <<per_frame_duration, message_send_rate, panicked, added_total, lag_base,
                   synced>>

\* lines 43-47 when no line panics: elapsed_duration >= per_frame_duration,
\* and an addition that passes u32::MAX (line 44 at frame_number = u32::MAX,
\* line 46 at frame_lag = u32::MAX) wraps to 0, as it does with overflow
\* checks off
IncrementCompletes ==
    /\ panicked = "none"
    /\ Less(incs_total, IncrementsBound)
    /\ ~DurationLess(elapsed_duration, per_frame_duration)
    /\ frame_number' = Wrap(Plus(frame_number, Low(1)))
    /\ elapsed_duration' = DurationSub(elapsed_duration, per_frame_duration)
    /\ frame_lag' = Wrap(Plus(frame_lag, Low(1)))
    /\ wrapped' = (wrapped \/ Overflows(Plus(frame_number, Low(1)))
                           \/ Overflows(Plus(frame_lag, Low(1))))
    /\ spent_total' = DurationSum(spent_total, per_frame_duration)
    /\ added_since' = from_secs(0)
    /\ incs_since' = Plus(incs_since, Low(1))
    /\ incs_total' = Plus(incs_total, Low(1))
    /\ last_call' = Call("increment_frame_number", NoArg)
    /\ ret' = Unit
    /\ UNCHANGED <<per_frame_duration, message_send_rate, panicked, added_total, lag_base,
                   synced>>

\* an increment that saturates at zero instead of panicking
IncrementSaturates ==
    /\ panicked = "none"
    /\ Less(incs_total, IncrementsBound)
    /\ DurationLess(elapsed_duration, per_frame_duration)
    /\ frame_number' = Wrap(Plus(frame_number, Low(1)))
    /\ elapsed_duration' = from_secs(0)
    /\ frame_lag' = Wrap(Plus(frame_lag, Low(1)))
    /\ wrapped' = (wrapped \/ Overflows(Plus(frame_number, Low(1)))
                           \/ Overflows(Plus(frame_lag, Low(1))))
    /\ spent_total' = DurationSum(spent_total, elapsed_duration)
    /\ added_since' = from_secs(0)
    /\ incs_since' = Plus(incs_since, Low(1))
    /\ incs_total' = Plus(incs_total, Low(1))
    /\ last_call' = Call("increment_frame_number", NoArg)
    /\ ret' = Unit
    /\ UNCHANGED <<per_frame_duration, message_send_rate, panicked, added_total, lag_base,
                   synced>>

\* lines 43-47 when a line panics.  With overflow checks on, line 44 panics at
\* frame_number = u32::MAX before anything has changed.  Otherwise line 44 has
\* bumped (or wrapped) frame_number when the subtraction of line 45 panics at
\* elapsed_duration < per_frame_duration.  Otherwise, with overflow checks on,
\* line 46 panics at frame_lag = u32::MAX after lines 44 and 45 have run
IncrementPanics ==
    /\ panicked = "none"
    /\ Less(incs_total, IncrementsBound)
    /\ \/ /\ Overflows(Plus(frame_number, Low(1)))
          /\ ~wrapped
          /\ panicked' = "attempt to add with overflow"
          /\ UNCHANGED <<fields, wrapped, history>>
       \/ /\ DurationLess(elapsed_duration, per_frame_duration)
          /\ frame_number' = Wrap(Plus(frame_number, Low(1)))
          /\ wrapped' = (wrapped \/ Overflows(Plus(frame_number, Low(1))))
          /\ panicked' = "overflow when subtracting durations"
          /\ UNCHANGED <<elapsed_duration, per_frame_duration, message_send_rate, frame_lag,
                         history>>
       \/ /\ ~Overflows(Plus(frame_number, Low(1)))
          /\ ~DurationLess(elapsed_duration, per_frame_duration)
          /\ Overflows(Plus(frame_lag, Low(1)))
          /\ ~wrapped
          /\ frame_number' = Plus(frame_number, Low(1))
          /\ elapsed_duration' = DurationSub(elapsed_duration, per_frame_duration)
          /\ spent_total' = DurationSum(spent_total, per_frame_duration)
          /\ panicked' = "attempt to add with overflow"
          /\ UNCHANGED <<per_frame_duration, message_send_rate, frame_lag, wrapped,
                         added_total, added_since, lag_base, incs_since, incs_total, synced>>
    /\ last_call' = Call("increment_frame_number", NoArg)
    /\ ret' = Unit

IncrementFrameNumber == IncrementCompletes \/ IncrementPanics

\* lines 50-52
ResetFrameLag ==
    /\ panicked = "none"
    /\ frame_lag' = Low(0)
    /\ lag_base' = Low(0)
    /\ incs_since' = Low(0)
    /\ last_call' = Call("reset_frame_lag", NoArg)
    /\ ret' = Unit
    /\ UNCHANGED <<frame_number, elapsed_duration, per_frame_duration, message_send_rate,
                   panicked, wrapped, added_total, spent_total, added_since, incs_total,
                   synced>>

\* a set_frame_number that also clears the lag
SetFrameNumberClearsLag(new_frame) ==
    /\ panicked = "none"
    /\ frame_number' = new_frame
    /\ frame_lag' = Low(0)
    /\ synced' = TRUE
    /\ last_call' = Call("set_frame_number", new_frame)
    /\ ret' = Unit
    /\ UNCHANGED <<elapsed_duration, per_frame_duration, message_send_rate, panicked, wrapped>>
    /\ UNCHANGED <<added_total, spent_total, added_since, lag_base, incs_since, incs_total>>

\* lines 67-69
SetFrameNumber(new_frame) ==
    /\ panicked = "none"
    /\ frame_number' = new_frame
    /\ synced' = TRUE
    /\ last_call' = Call("set_frame_number", new_frame)
    /\ ret' = Unit
    /\ UNCHANGED <<elapsed_duration, per_frame_duration, message_send_rate, frame_lag,
                   panicked, wrapped>>
    /\ UNCHANGED <<added_total, spent_total, added_since, lag_base, incs_since, incs_total>>

\* lines 99-101; dividing a Duration by 0 panics
SetNetworkFrameRate(new_rate) ==
    /\ panicked = "none"
    /\ IF new_rate = 0
       THEN /\ panicked' = "divide by zero error when dividing duration by scalar"
            /\ UNCHANGED per_frame_duration
       ELSE /\ per_frame_duration' = DurationDiv(from_secs(1), new_rate)
            /\ UNCHANGED panicked
    /\ last_call' = Call("set_network_frame_rate", new_rate)
    /\ ret' = Unit
    /\ UNCHANGED <<frame_number, elapsed_duration, message_send_rate, frame_lag, wrapped>>
    /\ UNCHANGED history

\* a setter that stores one less than it is given
SetMessageSendRateLessOne(new_rate) ==
    /\ panicked = "none"
    /\ new_rate >= 1
    /\ message_send_rate' = new_rate - 1
    /\ last_call' = Call("set_message_send_rate", new_rate)
    /\ ret' = Unit
    /\ UNCHANGED <<frame_number, elapsed_duration, per_frame_duration, frame_lag, panicked,
                   wrapped>>
    /\ UNCHANGED history

\* lines 104-106
SetMessageSendRate(new_rate) ==
    /\ panicked = "none"
    /\ message_send_rate' = new_rate
    /\ last_call' = Call("set_message_send_rate", new_rate)
    /\ ret' = Unit
    /\ UNCHANGED <<frame_number, elapsed_duration, per_frame_duration, frame_lag, panicked,
                   wrapped>>
    /\ UNCHANGED history

\* lines 25-27, called.  When the addition of line 26 passes u32::MAX, or else
\* its subtraction goes below zero, a build with overflow checks panics and a
\* build without them returns the wrapped range
NetworkFramesToRun ==
    /\ panicked = "none"
    /\ \/ /\ ret' = network_frames_to_run(frame_number, frame_lag)
          /\ wrapped' = (wrapped \/ frames_overflow(frame_number)
                                 \/ frames_underflow(frame_number, frame_lag))
          /\ UNCHANGED panicked
       \/ /\ frames_overflow(frame_number)
          /\ ~wrapped
          /\ panicked' = "attempt to add with overflow"
          /\ ret' = Unit
          /\ UNCHANGED wrapped
       \/ /\ ~frames_overflow(frame_number)
          /\ frames_underflow(frame_number, frame_lag)
          /\ ~wrapped
          /\ panicked' = "attempt to subtract with overflow"
          /\ ret' = Unit
          /\ UNCHANGED wrapped
    /\ last_call' = Call("network_frames_to_run", NoArg)
    /\ UNCHANGED fields
    /\ UNCHANGED history

\* lines 38-40, called; a remainder by 0 panics
ShouldSendMessage(frame) ==
    /\ panicked = "none"
    /\ IF u32_from(message_send_rate) = Low(0)
       THEN /\ panicked' = "attempt to calculate the remainder with a divisor of zero"
            /\ ret' = Unit
       ELSE /\ ret' = should_send_message(message_send_rate, frame)
            /\ UNCHANGED panicked
    /\ last_call' = Call("should_send_message", frame)
    /\ UNCHANGED <<fields, wrapped>>
    /\ UNCHANGED history

\* lines 32-34, called
ShouldSendMessageNow ==
    /\ panicked = "none"
    /\ IF u32_from(message_send_rate) = Low(0)
       THEN /\ panicked' = "attempt to calculate the remainder with a divisor of zero"
            /\ ret' = Unit
       ELSE /\ ret' = should_send_message_now(message_send_rate, frame_number)
            /\ UNCHANGED panicked
    /\ last_call' = Call("should_send_message_now", NoArg)
    /\ UNCHANGED <<fields, wrapped>>
    /\ UNCHANGED history

Next ==
    \/ (\E duration \in DurationInputs : UpdateElapsed(duration)) /\ UNCHANGED loop
    \/ IncrementCompletes /\ UNCHANGED loop
    \/ IncrementPanics /\ UNCHANGED loop
    \/ ResetFrameLag /\ UNCHANGED loop
    \/ (\E new_frame \in FrameInputs : SetFrameNumber(new_frame)) /\ UNCHANGED loop
    \/ (\E new_rate \in RateInputs : SetNetworkFrameRate(new_rate)) /\ UNCHANGED loop
    \/ (\E new_rate \in SendRateInputs : SetMessageSendRate(new_rate)) /\ UNCHANGED loop
    \/ NetworkFramesToRun /\ UNCHANGED loop
    \/ (\E frame \in QueryFrameInputs : ShouldSendMessage(frame)) /\ UNCHANGED loop
    \/ ShouldSendMessageNow /\ UNCHANGED loop

Spec == Init /\ [][Next]_vars

LongRun == LongRunInit /\ [][Next]_vars

-----------------------------------------------------------------------------
(* The caller's loop, as the documentation of the operations describes it:   *)
(* the rate is set once, and then every iteration adds the time elapsed,     *)
(* calls increment_frame_number while elapsed_duration >= per_frame_duration,*)
(* reads network_frames_to_run and calls reset_frame_lag.  set_frame_number  *)
(* is not called.                                                            *)

HostInit ==
    /\ Constructed
    /\ pc = "configure"
    /\ entry_elapsed = from_secs(0)
    /\ loop_calls = Low(0)
    /\ reports = <<>>

\* the loop after default(); set_network_frame_rate(3) and a first iteration:
\* update_elapsed(1431655762.901677569 s), 2^32 - 3 calls of
\* increment_frame_number, network_frames_to_run, reset_frame_lag.
\* frame_number is u32::MAX - 2, the frames 0..=u32::MAX - 2 have been
\* reported, and nothing has overflowed
HostLongInit ==
    /\ frame_number = HostLongIncrements
    /\ elapsed_duration = from_secs(0)
    /\ per_frame_duration = DurationDiv(from_secs(1), 3)
    /\ message_send_rate = Default.message_send_rate
    /\ frame_lag = Low(0)
    /\ panicked = "none"
    /\ wrapped = FALSE
    /\ last_call = Call("reset_frame_lag", NoArg)
    /\ ret = Unit
    /\ added_total = HostLongAdded
    /\ spent_total = HostLongAdded
    /\ added_since = from_secs(0)
    /\ lag_base = Low(0)
    /\ incs_since = Low(0)
    /\ incs_total = HostLongIncrements
    /\ synced = FALSE
    /\ pc = "update"
    /\ entry_elapsed = HostLongAdded
    /\ loop_calls = HostLongIncrements
    /\ reports = <<RangeInclusive(Low(0), HostLongIncrements)>>

HostConfigure ==
    /\ pc = "configure"
    /\ \E new_rate \in RateInputs : SetNetworkFrameRate(new_rate)
    /\ pc' = "update"
    /\ UNCHANGED <<entry_elapsed, loop_calls, reports>>

HostKeepsDefault ==
    /\ pc = "configure"
    /\ pc' = "update"
    /\ UNCHANGED <<fields, panicked, wrapped, last_call, ret, history, entry_elapsed,
                   loop_calls, reports>>

HostUpdate ==
    /\ pc = "update"
    /\ \E duration \in DurationInputs : UpdateElapsed(duration)
    /\ pc' = "drain"
    /\ entry_elapsed' = elapsed_duration'
    /\ loop_calls' = Low(0)
    /\ UNCHANGED reports

\* while elapsed_duration >= per_frame_duration: increment_frame_number()
HostDrain ==
    /\ pc = "drain"
    /\ ~DurationLess(elapsed_duration, per_frame_duration)
    /\ IncrementFrameNumber
    /\ loop_calls' = Plus(loop_calls, Low(1))
    /\ UNCHANGED <<pc, entry_elapsed, reports>>

\* the loop's condition is false
HostExit ==
    /\ pc = "drain"
    /\ panicked = "none"
    /\ DurationLess(elapsed_duration, per_frame_duration)
    /\ pc' = "read"
    /\ UNCHANGED <<fields, panicked, wrapped, last_call, ret, history, entry_elapsed,
                   loop_calls, reports>>

HostRead ==
    /\ pc = "read"
    /\ NetworkFramesToRun
    /\ reports' = IF panicked' = "none" THEN Append(reports, ret') ELSE reports
    /\ pc' = "reset"
    /\ UNCHANGED <<entry_elapsed, loop_calls>>

HostReset ==
    /\ pc = "reset"
    /\ ResetFrameLag
    /\ pc' = "update"
    /\ UNCHANGED <<entry_elapsed, loop_calls, reports>>

HostNext ==
    \/ HostConfigure
    \/ HostKeepsDefault
    \/ HostUpdate
    \/ HostDrain
    \/ HostExit
    \/ HostRead
    \/ HostReset

HostLoop == HostInit /\ [][HostNext]_vars

\* the iterations of the loop, the rate having been set
HostLongNext ==
    \/ HostUpdate
    \/ HostDrain
    \/ HostExit
    \/ HostRead
    \/ HostReset

HostLongRun == HostLongInit /\ [][HostLongNext]_vars

-----------------------------------------------------------------------------
(* The claims *)

Zero == from_secs(0)

Completed(op) == last_call.op = op /\ panicked = "none"

\* C1 (as stated): after increment_frame_number has completed (with a positive
\* per_frame_duration), frame_lag is its value at construction or at the last
\* reset_frame_lag plus the number of increments since, and
\* network_frames_to_run is a range of exactly frame_lag frame numbers whose
\* last element is frame_number
C1_RangeHoldsLagFrames ==
    (Completed("increment_frame_number") /\ DurationLess(Zero, per_frame_duration)) =>
        /\ frame_lag = Plus(lag_base, incs_since)
        /\ ~frames_overflow(frame_number)
        /\ ~frames_underflow(frame_number, frame_lag)
        /\ count(network_frames_to_run(frame_number, frame_lag)) = frame_lag
        /\ network_frames_to_run(frame_number, frame_lag).end = frame_number

\* C2 (as stated): right after reset_frame_lag, frame_lag is 0 and
\* network_frames_to_run computes, without overflow, a range holding no frame
\* number; and whenever network_frames_to_run is called with frame_lag = 0 it
\* returns the empty range
C2_ResetGivesEmptyRange ==
    /\ Completed("reset_frame_lag") =>
          /\ frame_lag = Low(0)
          /\ ~frames_overflow(frame_number)
          /\ ~frames_underflow(frame_number, frame_lag)
          /\ is_empty(network_frames_to_run(frame_number, frame_lag))
    /\ (last_call.op = "network_frames_to_run" /\ frame_lag = Low(0)) =>
          /\ panicked = "none"
          /\ is_empty(ret)

\* C3 (as stated): every call of increment_frame_number completes, adding 1 to
\* frame_number and to frame_lag and taking per_frame_duration off elapsed_duration
C3_IncrementAlwaysCompletes ==
    [][IncrementFrameNumber =>
          /\ panicked' = "none"
          /\ frame_number' = Plus(frame_number, Low(1))
          /\ frame_lag' = Plus(frame_lag, Low(1))
          /\ DurationSum(elapsed_duration', per_frame_duration) = elapsed_duration]_vars

\* C3 (amended): increment_frame_number checks nothing itself.  Called with
\* elapsed_duration >= per_frame_duration and both counters below u32::MAX it
\* completes, adding 1 to frame_number and to frame_lag and taking
\* per_frame_duration off elapsed_duration.  Called with elapsed_duration <
\* per_frame_duration it panics in the subtraction, after frame_number was
\* bumped, and elapsed_duration and frame_lag keep their values:
\* elapsed_duration is never negative.  At frame_number = u32::MAX the call
\* panics before it changes anything or wraps frame_number to 0, and at
\* frame_lag = u32::MAX it panics after the first two lines or wraps frame_lag
\* to 0, as the build has overflow checks or not
C3_IncrementCompletesOrPanics ==
    [][IncrementFrameNumber =>
          LET short == DurationLess(elapsed_duration, per_frame_duration)
              frame_max == frame_number = U32_MAX
              lag_max == frame_lag = U32_MAX
          IN  /\ (~short /\ ~frame_max /\ ~lag_max) =>
                    /\ panicked' = "none"
                    /\ frame_number' = Plus(frame_number, Low(1))
                    /\ frame_lag' = Plus(frame_lag, Low(1))
                    /\ DurationSum(elapsed_duration', per_frame_duration) = elapsed_duration
              /\ (short /\ ~frame_max) =>
                    /\ panicked' = "overflow when subtracting durations"
                    /\ frame_number' = Plus(frame_number, Low(1))
                    /\ frame_lag' = frame_lag
                    /\ elapsed_duration' = elapsed_duration
              /\ frame_max =>
                    \/ panicked' = "attempt to add with overflow" /\ UNCHANGED fields
                    \/ frame_number' = Low(0)
              /\ (lag_max /\ ~short /\ ~frame_max) =>
                    \/ /\ panicked' = "attempt to add with overflow"
                       /\ frame_number' = Plus(frame_number, Low(1))
                       /\ frame_lag' = frame_lag
                    \/ /\ panicked' = "none"
                       /\ frame_number' = Plus(frame_number, Low(1))
                       /\ frame_lag' = Low(0)
              /\ ~DurationLess(elapsed_duration', Zero)]_vars

C3_Witness ==
    /\ last_call.op = "increment_frame_number"
    /\ panicked = "overflow when subtracting durations"
    /\ DurationLess(Zero, elapsed_duration)
    /\ DurationLess(elapsed_duration, per_frame_duration)

\* C4 (as stated): right after update_elapsed, elapsed_duration is the sum of
\* the durations passed to update_elapsed since construction or since the last
\* increment_frame_number
C4_ElapsedIsSumSinceIncrement ==
    Completed("update_elapsed") => elapsed_duration = added_since

\* C4 (amended): elapsed_duration is the sum of all the durations update_elapsed
\* has added since construction, less the per_frame_duration taken by each
\* increment_frame_number (what an increment leaves is carried over); it is the
\* plain sum while no increment has completed; and update_elapsed panics, adding
\* nothing, exactly when the sum would pass Duration::MAX
C4_ElapsedIsAddedLessSpent ==
    /\ DurationSum(elapsed_duration, spent_total) = added_total
    /\ incs_total = Low(0) => elapsed_duration = added_total
    /\ LessEq(elapsed_duration.secs, U64_MAX)
    /\ panicked = "overflow when adding durations" =>
          /\ last_call.op = "update_elapsed"
          /\ DurationAddOverflows(elapsed_duration, last_call.arg)

C4_Witness ==
    /\ Completed("update_elapsed")
    /\ incs_total = Low(1)
    /\ elapsed_duration /= added_since
    /\ DurationLess(Zero, spent_total)

\* C5: with message_send_rate >= 1, should_send_message(F) returns whether
\* F mod message_send_rate = 0, and should_send_message_now returns whether
\* frame_number mod message_send_rate = 0, whatever the other fields hold
C5_SendIffFrameDivisible ==
    /\ Completed("should_send_message") =>
          /\ message_send_rate >= 1
          /\ ret = (Rem(last_call.arg, Low(message_send_rate)) = 0)
          /\ IsLow(last_call.arg) => ret = (ToInt(last_call.arg) % message_send_rate = 0)
    /\ Completed("should_send_message_now") =>
          /\ message_send_rate >= 1
          /\ ret = (Rem(frame_number, Low(message_send_rate)) = 0)
          /\ IsLow(frame_number) => ret = (ToInt(frame_number) % message_send_rate = 0)

C5_Witness ==
    /\ Completed("should_send_message")
    /\ message_send_rate = 3
    /\ last_call.arg = U32_MAX
    /\ ret = TRUE
    /\ frame_number = Low(1)
    /\ frame_lag = Low(0)

\* C6 (as stated): message_send_rate >= 1 in every reachable state
C6_SendRatePositive == message_send_rate >= 1

\* C6 (amended): message_send_rate is 1 at construction and the only step that
\* makes it 0 is set_message_send_rate(0), which stores its argument unchecked;
\* should_send_message takes a remainder by zero exactly when it is called
\* after that
C6_SendRateZeroOnlyBySetter ==
    [][/\ last_call.op = "default" => message_send_rate = 1
       /\ (message_send_rate' < 1 /\ message_send_rate >= 1) =>
              (last_call'.op = "set_message_send_rate" /\ last_call'.arg = 0)
       /\ (last_call'.op = "set_message_send_rate" /\ SetMessageSendRate(last_call'.arg)) =>
              /\ message_send_rate' = last_call'.arg
              /\ last_call'.arg >= 1 => message_send_rate' >= 1
       /\ panicked' = "attempt to calculate the remainder with a divisor of zero" =>
              message_send_rate = 0]_vars

C6_Witness ==
    /\ Completed("set_message_send_rate")
    /\ last_call.arg = 3
    /\ message_send_rate = 3
    /\ Less(Low(0), incs_total)

\* C7 (as stated): per_frame_duration > 0 in every reachable state (a call of
\* set_network_frame_rate(0) panics and stores nothing)
C7_PerFramePositive == DurationLess(Zero, per_frame_duration)

\* C8: after set_network_frame_rate(R) with R >= 1, per_frame_duration is
\* floor(10^9 / R) nanoseconds; R = 20 gives 50 ms
C8_PerFrameIsSecondOverRate ==
    Completed("set_network_frame_rate") =>
        /\ per_frame_duration.secs \in {Low64(0), Low64(1)}
        /\ per_frame_duration.nanos \in 0 .. (NANOS_PER_SEC - 1)
        /\ ToInt(per_frame_duration.secs) * NANOS_PER_SEC + per_frame_duration.nanos
               = NANOS_PER_SEC \div last_call.arg
        /\ last_call.arg = 20 => per_frame_duration = from_millis(50)

C8_Witness ==
    /\ Completed("set_network_frame_rate")
    /\ last_call.arg = 3
    /\ per_frame_duration = Duration(Low64(0), 333333333)

\* C9: set_frame_number(n) makes frame_number n, for every n up to u32::MAX,
\* and leaves elapsed_duration, frame_lag, per_frame_duration and
\* message_send_rate as they were
C9_SetFrameNumberSetsOnlyFrame ==
    [][(last_call'.op = "set_frame_number" /\ SetFrameNumber(last_call'.arg)) =>
          /\ frame_number' = last_call'.arg
          /\ UNCHANGED <<elapsed_duration, frame_lag, per_frame_duration,
                         message_send_rate>>]_vars

C9_Witness ==
    /\ Completed("set_frame_number")
    /\ last_call.arg = Low(0)
    /\ frame_number = Low(0)
    /\ frame_lag = Low(3)
    /\ DurationLess(Zero, elapsed_duration)

\* C10: the default NetworkTime has frame_number 0, frame_lag 1,
\* message_send_rate 1, elapsed_duration 0 and per_frame_duration 600 ms, and
\* set_network_frame_rate changes none of the fields but per_frame_duration
C10_DefaultValues ==
    [][/\ last_call.op = "default" =>
              /\ frame_number = Low(0)
              /\ frame_lag = Low(1)
              /\ message_send_rate = 1
              /\ elapsed_duration = Zero
              /\ per_frame_duration = from_millis(600)
       /\ (last_call'.op = "set_network_frame_rate" /\ SetNetworkFrameRate(last_call'.arg)) =>
              UNCHANGED <<frame_number, frame_lag, message_send_rate,
                          elapsed_duration>>]_vars

C10_Witness ==
    /\ Completed("set_network_frame_rate")
    /\ last_call.arg = 20
    /\ per_frame_duration = from_millis(50)
    /\ frame_number = Low(0)
    /\ frame_lag = Low(1)
    /\ message_send_rate = 1
    /\ elapsed_duration = Zero

\* C11 (as stated): the default instance reports exactly frame 0, and before
\* the first reset_frame_lag the range network_frames_to_run reports starts at
\* frame 0
C11_RangeStartsAtZeroBeforeReset ==
    /\ last_call.op = "default" =>
          network_frames_to_run(frame_number, frame_lag) = RangeInclusive(Low(0), Low(0))
    /\ (lag_base = Low(1) /\ panicked = "none") =>
          /\ ~frames_underflow(frame_number, frame_lag)
          /\ network_frames_to_run(frame_number, frame_lag).start = Low(0)

\* C11 (amended): the default instance reports exactly frame 0, and before the
\* first reset_frame_lag, as long as set_frame_number has not been called,
\* network_frames_to_run reports the range from frame 0 to frame_number
C11_RangeStartsAtZeroUnlessSynced ==
    /\ last_call.op = "default" =>
          network_frames_to_run(frame_number, frame_lag) = RangeInclusive(Low(0), Low(0))
    /\ (lag_base = Low(1) /\ ~synced /\ panicked = "none") =>
          /\ ~frames_underflow(frame_number, frame_lag)
          /\ frames_overflow(frame_number) => wrapped
          /\ network_frames_to_run(frame_number, frame_lag)
                = RangeInclusive(Low(0), frame_number)
    /\ (Completed("network_frames_to_run") /\ lag_base = Low(1) /\ ~synced) =>
          ret = RangeInclusive(Low(0), frame_number)

C11_Witness ==
    /\ Completed("network_frames_to_run")
    /\ lag_base = Low(1)
    /\ ~synced
    /\ incs_total = Low(2)
    /\ ret = RangeInclusive(Low(0), Low(2))

\* C12 (as stated): a step leaves frame_lag as it is, or adds 1 to it
\* (increment_frame_number only), or makes it 0 (reset_frame_lag only);
\* update_elapsed, set_frame_number, set_network_frame_rate and
\* set_message_send_rate leave it as it is
C12_LagOnlyIncrementedOrReset ==
    [][/\ \/ frame_lag' = frame_lag
          \/ frame_lag' = Plus(frame_lag, Low(1)) /\ last_call'.op = "increment_frame_number"
          \/ frame_lag' = Low(0) /\ last_call'.op = "reset_frame_lag"
       /\ last_call'.op \in {"update_elapsed", "set_frame_number",
                             "set_network_frame_rate", "set_message_send_rate"}
             => frame_lag' = frame_lag
       /\ ResetFrameLag => frame_lag' = Low(0)]_vars

\* C13 (as stated): as long as set_frame_number has not been called, a step
\* leaves frame_number as it is or, when it is a call of
\* increment_frame_number, adds exactly 1 to it: frame_number never decreases
C13_FrameNumberOnlyIncremented ==
    [][~synced' =>
          /\ \/ frame_number' = frame_number
             \/ /\ frame_number' = Plus(frame_number, Low(1))
                /\ last_call'.op = "increment_frame_number"
          /\ LessEq(frame_number, frame_number')
          /\ ResetFrameLag => frame_number' = frame_number]_vars

\* C16 (as stated): in every reachable state frame_lag <= frame_number + 1, so
\* that line 26 does not underflow, and no call of network_frames_to_run panics
C16_RangeNeverUnderflows ==
    /\ panicked = "none" => ~frames_underflow(frame_number, frame_lag)
    /\ panicked /= "attempt to subtract with overflow"

\* C18 (as stated): as long as set_frame_number has not been called,
\* frame_lag <= frame_number + 1 and the start of the range of
\* network_frames_to_run is a frame number >= 0
C18_LagWithinFramesUnlessSynced ==
    ~synced =>
        /\ LessEq(frame_lag, Plus(frame_number, Low(1)))
        /\ ~Underflows(Minus(Plus(frame_number, Low(1)), frame_lag))
        /\ panicked /= "attempt to subtract with overflow"

\* n times the duration d
RECURSIVE Times(_, _)
Times(d, n) == IF n = Low(0) THEN Zero ELSE DurationSum(Times(d, Minus(n, Low(1))), d)

\* C14: when the drain loop has just ended, 0 <= elapsed_duration <
\* per_frame_duration and the loop has called increment_frame_number exactly
\* floor(E / per_frame_duration) times, E being elapsed_duration at its entry
C14_DrainLeavesLessThanAFrame ==
    pc = "read" =>
        /\ DurationLessEq(Zero, elapsed_duration)
        /\ elapsed_duration.nanos \in 0 .. (NANOS_PER_SEC - 1)
        /\ DurationLess(elapsed_duration, per_frame_duration)
        /\ DurationLessEq(Times(per_frame_duration, loop_calls), entry_elapsed)
        /\ DurationLess(entry_elapsed, Times(per_frame_duration, Plus(loop_calls, Low(1))))

C14_Witness ==
    /\ pc = "read"
    /\ loop_calls = Low(2)
    /\ DurationLess(Zero, elapsed_duration)

\* C15: in the caller's loop, where per_frame_duration does not change once
\* time is added and increment_frame_number is called only when
\* elapsed_duration >= per_frame_duration, the durations update_elapsed has
\* added sum to elapsed_duration plus per_frame_duration times the number of
\* increment_frame_number calls
C15_AddedIsElapsedPlusFramesSpent ==
    added_total = DurationSum(elapsed_duration, Times(per_frame_duration, incs_total))

C15_Witness ==
    /\ incs_total = Low(2)
    /\ DurationLess(Zero, elapsed_duration)
    /\ per_frame_duration = Duration(Low64(0), 333333333)
    /\ panicked = "none"

NonEmpty(r) == ~is_empty(r)

\* the ranges that hold a frame, in the order they were reported, followed
\* (until it is read) by the range the caller is still owed
Chain ==
    LET owed == network_frames_to_run(frame_number, frame_lag)
    IN  IF pc = "reset" \/ is_empty(owed)
        THEN SelectSeq(reports, NonEmpty)
        ELSE Append(SelectSeq(reports, NonEmpty), owed)

\* C17 (as stated): in the caller's loop the ranges reported so far, with the
\* range still owed, are exactly the frames 0..frame_number: the first starts at
\* frame 0, each of the others starts one frame after the one before it ends,
\* and the last ends at frame_number
C17_ReportsPartitionTheFrames ==
    panicked = "none" =>
        /\ Len(Chain) >= 1
        /\ Chain[1].start = Low(0)
        /\ Chain[Len(Chain)].end = frame_number
        /\ \A i \in 1 .. (Len(Chain) - 1) : Chain[i + 1].start = Plus(Chain[i].end, Low(1))

\* C19 (as stated, in the form a finite run refutes): the drain loop ends
\* because every pass brings it nearer to its exit: a call of
\* increment_frame_number made while elapsed_duration >= per_frame_duration
\* leaves elapsed_duration smaller than it found it.  (A pass that leaves
\* elapsed_duration and per_frame_duration as they were is followed by the
\* same pass again, for ever.)
C19_DrainPassMakesProgress ==
    [][HostDrain => DurationLess(elapsed_duration', elapsed_duration)]_vars

====
